---- MODULE Spec2Model ----
(***************************************************************************)
(* A model of the Torrents harvester (src/src/main.rs, src/src/config.rs): *)
(* the checkpointed pipeline of main, the queue-and-workers downloader     *)
(* save_files, and the proxy validation check_proxy.                       *)
(*                                                                         *)
(* Five specifications share the variables:                                *)
(*   Spec      the pipeline of main over any number of runs, with kills,   *)
(*             the downloader's workers interleaved inside each stage;     *)
(*   SpecDL    one call of save_files for any job list and client count;   *)
(*   FairDL    SpecDL with the fairness of the worker threads;             *)
(*   SpecPX    Step 1 of main: the parallel validation of the candidates;  *)
(*   SpecGT    save_files with one client, save_file and get_text taken    *)
(*             request by request.                                         *)
(***************************************************************************)
EXTENDS Integers, Sequences, FiniteSets, TLC

\* ---------------------------------------------------------------- bounds
\* The remote site has between 1 and MaxN index pages.
MaxN == 3
\* proxies.txt yields at most MaxClients validated clients.
MaxClients == 2
\* SpecDL: save_files is called with 1..MaxJobs jobs.
MaxJobs == 3
\* SpecPX: proxies.txt holds NumCandidates lines.
NumCandidates == 2

VARIABLES
    \* ---- stable storage and the remote site
    ckpt,          \* TORRENTS.JSON as the file system holds it
    disk,          \* the destination paths that exist under base_path
    remoteN,       \* the page count the site's index shows
    remoteChanged, \* history: the site changed since the first run
    persistedHigh, \* history: the largest max_pages any save has written
    \* ---- one run of main
    pc,            \* position of the control thread of main
    config,        \* main's `config`
    clients,       \* clients.len() after Step 1
    max_pages,     \* main's `max_pages` (Step 2)
    stage,         \* which call of save_files is open
    \* ---- one call of save_files
    queue,         \* the ArrayQueue
    cap,           \* its capacity (`total`)
    wpc,           \* per client: position in the closure of for_each_with
    msg,           \* per client: the job it popped
    files,         \* the `files` argument
    deadClients,   \* clients whose every request fails
    deadJobs,      \* jobs whose url no client can fetch
    requeued,      \* history: a job went back to the queue in this call
    \* ---- history of the current run
    ckptAtStart,   \* ckpt when the run started
    diskAtStart,   \* disk when the run started
    submitted,     \* the jobs handed to save_files, per stage
    saves,         \* how many times Config::save completed
    prevDone,      \* the previous run ended at Ok(()) with this remoteN
    \* ---- Step 1 in detail (SpecPX)
    localText,     \* the lazy static LOCAL_TEXT
    cand,          \* per candidate: position in the Step 1 chain
    net,           \* per candidate: what the network does to its request
    kept,          \* the candidates collected into `clients`
    \* ---- save_file in detail (SpecGT)
    sent,          \* per client: requests sent by the get_text call in progress
    delays,        \* per client: delays already taken from `iterable`
    resp,          \* per client: the status class of the response it holds
    errBodies,     \* the written paths that hold the body of an error response
    fsErr          \* history: create_dir_all or fs::write failed in this call

storeVars == <<ckpt, disk, remoteN, remoteChanged, persistedHigh>>
mainVars == <<pc, config, clients, max_pages, stage>>
dlVars == <<queue, cap, wpc, msg, files, deadClients, deadJobs, requeued>>
histVars == <<ckptAtStart, diskAtStart, submitted, saves, prevDone>>
pxVars == <<localText, cand, net, kept>>
gtVars == <<sent, delays, resp, errBodies, fsErr>>
vars == <<storeVars, mainVars, dlVars, histVars, pxVars, gtVars>>

\* ------------------------------------------------------- pure functions

\* Vec::sort on the identifiers (an identifier's number is its rank in the
\* lexicographic order of the strings).
RECURSIVE Insert(_, _)
Insert(x, s) ==
    IF s = <<>> THEN <<x>>
    ELSE IF x <= Head(s) THEN <<x>> \o s
    ELSE <<Head(s)>> \o Insert(x, Tail(s))

RECURSIVE Sort(_)
Sort(s) == IF s = <<>> THEN <<>> ELSE Insert(Head(s), Sort(Tail(s)))

\* Mutant: dedup() is left out.
DedupNone(s) == s

\* Vec::dedup: removes consecutive repeated elements.
RECURSIVE Dedup(_)
Dedup(s) ==
    IF Len(s) <= 1 THEN s
    ELSE IF s[1] = s[2] THEN Dedup(Tail(s))
    ELSE <<s[1]>> \o Dedup(Tail(s))

Range(s) == {s[i] : i \in 1..Len(s)}

\* ------------------------------------------------------ the remote site
\* A link of a document: `abs` says whether the href starts with BASE_URL.
Href(ext, id, abs) == [ext |-> ext, id |-> id, abs |-> abs]

\* Index page p links entries p+1 and p (out of order, one of them twice,
\* one as an absolute link), and a stylesheet.
PageHtml(p) ==
    << Href("html", p + 1, FALSE), Href("css", p, FALSE),
       Href("html", p, TRUE), Href("html", p + 1, TRUE) >>

\* Entry e links torrent locators (e+3) \div 2 and (e+1) \div 2, and itself.
EntryHtml(e) ==
    << Href("torrent", (e + 3) \div 2, FALSE), Href("html", e, TRUE),
       Href("torrent", (e + 1) \div 2, FALSE) >>

\* Locators with an odd rank are of the form
\* https://d.ptorrents.com/<path>/[ptorrents.com].<name>.torrent; the others
\* are hosted elsewhere.
Locator(t) ==
    [host |-> IF t % 2 = 1 THEN "d.ptorrents.com" ELSE "cdn.example.org",
     path |-> t, name |-> t]

\* ------------------------------------------------ files, jobs, documents
\* A job is identified by its destination; its url is the matching one
\* (BASE_URL/page/<id>, BASE_URL/<entry>, the locator itself).
File(dir, id) == [dir |-> dir, id |-> id]
NoJob == File("NONE", 0)
IndexFile == File("INDEX", 0)
PageFile(p) == File("PAGES", p)
EntryFile(e) == File("ENTRIES", e)

\* What the site serves for a job's url.
Content(f) ==
    IF f.dir = "PAGES" THEN PageHtml(f.id)
    ELSE IF f.dir = "ENTRIES" THEN EntryHtml(f.id)
    ELSE <<>>

\* s.replace(BASE_URL, ""): an absolute and a relative href of one entry
\* become the same string.
StripBase(h) == h.id

\* scrape_files: the hrefs of the document at `path` that end with `pat`,
\* BASE_URL removed; Err when the file cannot be read.
RECURSIVE Links(_, _)
Links(doc, pat) ==
    IF doc = <<>> THEN <<>>
    ELSE IF Head(doc).ext = pat THEN <<StripBase(Head(doc))>> \o Links(Tail(doc), pat)
    ELSE Links(Tail(doc), pat)

scrape_files(d, path, pat) ==
    IF path \in d THEN [ok |-> TRUE, links |-> Links(Content(path), pat)]
    ELSE [ok |-> FALSE, links |-> <<>>]

\* .map(scrape_files).filter_map(Result::ok).flatten().collect()
RECURSIVE ScrapeAll(_, _, _)
ScrapeAll(d, paths, pat) ==
    IF paths = <<>> THEN <<>>
    ELSE LET r == scrape_files(d, Head(paths), pat)
         IN  (IF r.ok THEN r.links ELSE <<>>) \o ScrapeAll(d, Tail(paths), pat)

\* Mutant: the inclusive range 1..=max_pages.
ScrapedPagesInclusive(n) == [p \in 1..n |-> PageFile(p)]

\* Step 4 scrapes the range 1..max_pages, which excludes max_pages.
ScrapedPages(n) == [p \in 1..(n - 1) |-> PageFile(p)]

\* Step 6 scrapes the file of every entry.
EntryFiles(entries) == [i \in 1..Len(entries) |-> EntryFile(entries[i])]

\* Step 7: the regex and the destination it yields.
regex_captures(t) ==
    LET l == Locator(t)
    IN  IF l.host = "d.ptorrents.com"
        THEN [some |-> TRUE, path |-> l.path, name |-> l.name]
        ELSE [some |-> FALSE, path |-> 0, name |-> 0]

TorrentFile(t) == File("TORRENT", regex_captures(t).name)

\* ------------------------------------------------------- the checkpoint
DefaultConfig == [max_pages |-> 0, entries |-> <<>>, torrents |-> <<>>]

\* A missing file, or one that open(truncate) emptied: nothing to parse.
Unreadable == [ok |-> FALSE, max_pages |-> 0, entries |-> <<>>, torrents |-> <<>>]

\* Config::load(base_path).unwrap_or_default()
Load(c) ==
    IF c.ok
    THEN [max_pages |-> c.max_pages, entries |-> c.entries, torrents |-> c.torrents]
    ELSE DefaultConfig

\* What Config::save leaves in the file once write_all is through.
Written(cfg) ==
    [ok |-> TRUE, max_pages |-> cfg.max_pages, entries |-> cfg.entries,
     torrents |-> cfg.torrents]

Max(a, b) == IF a >= b THEN a ELSE b

\* --------------------------------------------------------- initial state
Workers == 1..MaxClients
NoSubmits == [pages |-> {}, entries |-> {}, torrents |-> {}]

IdleMain ==
    /\ config = DefaultConfig
    /\ clients = 0
    /\ max_pages = 0
    /\ stage = "none"

IdleDL ==
    /\ queue = <<>>
    /\ cap = 0
    /\ wpc = [w \in Workers |-> "off"]
    /\ msg = [w \in Workers |-> NoJob]
    /\ files = {}
    /\ deadClients = {}
    /\ deadJobs = {}
    /\ requeued = FALSE

IdleHist ==
    /\ ckptAtStart = Unreadable
    /\ diskAtStart = {}
    /\ submitted = NoSubmits
    /\ saves = 0
    /\ prevDone = FALSE

IdlePX ==
    /\ localText = "unset"
    /\ cand = <<>>
    /\ net = <<>>
    /\ kept = {}

IdleGT ==
    /\ sent = [w \in Workers |-> 0]
    /\ delays = [w \in Workers |-> 0]
    /\ resp = [w \in Workers |-> "none"]
    /\ errBodies = {}
    /\ fsErr = FALSE

\* The same values, as the state a new or ended process leaves in memory.
ResetMain ==
    /\ config' = DefaultConfig
    /\ clients' = 0
    /\ max_pages' = 0
    /\ stage' = "none"

ResetDL ==
    /\ queue' = <<>>
    /\ cap' = 0
    /\ wpc' = [w \in Workers |-> "off"]
    /\ msg' = [w \in Workers |-> NoJob]
    /\ files' = {}
    /\ deadClients' = {}
    /\ deadJobs' = {}
    /\ requeued' = FALSE

ResetHist ==
    /\ ckptAtStart' = Unreadable
    /\ diskAtStart' = {}
    /\ submitted' = NoSubmits
    /\ saves' = 0
    /\ prevDone' = FALSE

Init ==
    /\ ckpt = Unreadable
    /\ disk = {}
    /\ remoteN \in 1..MaxN
    /\ remoteChanged = FALSE
    /\ persistedHigh = 0
    /\ pc = "idle"
    /\ IdleMain
    /\ IdleDL
    /\ IdleHist
    /\ IdlePX
    /\ IdleGT

\* ------------------------------------------------------------ save_files
\* files.into_par_iter().try_for_each(|msg| queue.push(msg)): the pushes run
\* in parallel, so the queue may hold the jobs in any order.
Orders(jobs) ==
    {s \in [1..Cardinality(jobs) -> jobs] : \A i, j \in DOMAIN s : i # j => s[i] # s[j]}

\* save_files up to the start of for_each_with: the queue of capacity
\* `total` holds the jobs and one closure per client is about to run.
StartSaveFiles(jobs, st) ==
    /\ queue' \in Orders(jobs)
    /\ cap' = Cardinality(jobs)
    /\ wpc' = [w \in Workers |-> IF w <= clients THEN "pop" ELSE "off"]
    /\ msg' = [w \in Workers |-> NoJob]
    /\ files' = jobs
    /\ stage' = st
    /\ requeued' = FALSE
    /\ pc' = "dl"

\* Mutant: the job is read from the front of the queue and left there.
PopPeek(w) ==
    /\ pc = "dl"
    /\ wpc[w] = "pop"
    /\ queue # <<>>
    /\ msg' = [msg EXCEPT ![w] = Head(queue)]
    /\ wpc' = [wpc EXCEPT ![w] = "save"]
    /\ UNCHANGED <<storeVars, mainVars, queue, cap, files, deadClients, deadJobs, requeued,
                   histVars, pxVars, gtVars>>

\* while let Some(msg) = queue.pop()
Pop(w) ==
    /\ pc = "dl"
    /\ wpc[w] = "pop"
    /\ queue # <<>>
    /\ msg' = [msg EXCEPT ![w] = Head(queue)]
    /\ queue' = Tail(queue)
    /\ wpc' = [wpc EXCEPT ![w] = "save"]
    /\ UNCHANGED <<storeVars, mainVars, cap, files, deadClients, deadJobs, requeued,
                   histVars, pxVars, gtVars>>

\* Mutant: a pop that blocks on an empty queue instead of returning None.
ExitBlocks(w) ==
    /\ pc = "dl"
    /\ wpc[w] = "pop"
    /\ queue = <<>>
    /\ UNCHANGED vars

\* queue.pop() returned None: the closure of this client ends.
Exit(w) ==
    /\ pc = "dl"
    /\ wpc[w] = "pop"
    /\ queue = <<>>
    /\ wpc' = [wpc EXCEPT ![w] = "exit"]
    /\ UNCHANGED <<storeVars, mainVars, queue, cap, msg, files, deadClients, deadJobs,
                   requeued, histVars, pxVars, gtVars>>

\* save_file returned Ok: the contents were fetched and written to the path.
SaveOk(w) ==
    /\ pc = "dl"
    /\ wpc[w] = "save"
    /\ w \notin deadClients
    /\ msg[w] \notin deadJobs
    /\ disk' = disk \cup {msg[w]}
    /\ msg' = [msg EXCEPT ![w] = NoJob]
    /\ wpc' = [wpc EXCEPT ![w] = "pop"]
    /\ UNCHANGED <<ckpt, remoteN, remoteChanged, persistedHigh, mainVars, queue, cap,
                   files, deadClients, deadJobs, requeued, histVars, pxVars, gtVars>>

\* Mutant: the error is logged and the job is not pushed back.
RequeueDrop(w) ==
    /\ msg' = [msg EXCEPT ![w] = NoJob]
    /\ wpc' = [wpc EXCEPT ![w] = "pop"]
    /\ pc' = pc
    /\ UNCHANGED <<queue, requeued>>

\* queue.push(msg).unwrap() after save_file returned Err: the job goes to the
\* back of the queue; a full queue makes unwrap panic.
Requeue(w) ==
    IF Len(queue) < cap
    THEN /\ queue' = Append(queue, msg[w])
         /\ msg' = [msg EXCEPT ![w] = NoJob]
         /\ wpc' = [wpc EXCEPT ![w] = "pop"]
         /\ requeued' = TRUE
         /\ pc' = pc
    ELSE /\ pc' = "panic_push"
         /\ UNCHANGED <<queue, msg, wpc, requeued>>

\* save_file returned Err (from get_text, create_dir_all or write): nothing
\* was written, the error is printed and the job is pushed back.
SaveErr(w) ==
    /\ pc = "dl"
    /\ wpc[w] = "save"
    /\ Requeue(w)
    /\ UNCHANGED <<storeVars, config, clients, max_pages, stage, cap, files,
                   deadClients, deadJobs, histVars, pxVars, gtVars>>

\* Where main goes on when save_files returns Ok(()).
AfterSaveFiles(st) ==
    CASE st = "pages" -> "after_pages"
      [] st = "entries" -> "after_entries"
      [] st = "torrents" -> "done"
      [] OTHER -> "returned"

\* Mutant: save_files returns as soon as the queue is empty, whatever the
\* clients still hold.
SaveFilesReturnEarly ==
    /\ pc = "dl"
    /\ queue = <<>>
    /\ pc' = AfterSaveFiles(stage)
    /\ UNCHANGED <<storeVars, config, clients, max_pages, stage, dlVars, histVars, pxVars, gtVars>>

\* for_each_with returns once the closure of every client has ended.
SaveFilesReturn ==
    /\ pc = "dl"
    /\ \A w \in Workers : wpc[w] \in {"exit", "off"}
    /\ pc' = AfterSaveFiles(stage)
    /\ UNCHANGED <<storeVars, config, clients, max_pages, stage, dlVars, histVars, pxVars, gtVars>>

Worker(w) == Pop(w) \/ Exit(w) \/ SaveOk(w) \/ SaveErr(w)


\* ------------------------------------------------------------------ main
\* No process runs: none was started yet or the last one was killed, main
\* returned Ok(()), main returned an Err, or a thread panicked.
Ended == {"idle", "done", "abort_proxies", "abort_index", "abort_save",
          "panic_clients0", "panic_local_text", "panic_push"}

\* main starts: Config::load(base_path).unwrap_or_default().
Start ==
    /\ pc \in Ended
    /\ pc' = "step1"
    /\ config' = Load(ckpt)
    /\ clients' = 0
    /\ max_pages' = 0
    /\ stage' = "none"
    /\ ResetDL
    /\ ckptAtStart' = ckpt
    /\ diskAtStart' = disk
    /\ submitted' = NoSubmits
    /\ saves' = 0
    /\ prevDone' = (pc = "done")
    /\ UNCHANGED <<storeVars, pxVars, gtVars>>

\* Step 1: the candidates that pass check_proxy are collected; any number
\* of them may pass (SpecPX has the step in detail).
Step1 ==
    /\ pc = "step1"
    /\ \E k \in 0..MaxClients : clients' = k
    /\ pc' = "step2"
    /\ UNCHANGED <<storeVars, config, max_pages, stage, dlVars, histVars, pxVars, gtVars>>

\* Step 1 ends the process: proxies.txt cannot be read (`?`), or the direct
\* request for LOCAL_TEXT fails and unwrap panics.
Step1Fatal ==
    /\ pc = "step1"
    /\ pc' \in {"abort_proxies", "panic_local_text"}
    /\ UNCHANGED <<storeVars, config, clients, max_pages, stage, dlVars, histVars, pxVars, gtVars>>

\* Mutant: the first client is taken without the bounds check.
Step2ResultUnchecked(r) ==
    CASE r = "ok" ->
            /\ disk' = disk \cup {IndexFile}
            /\ max_pages' = remoteN
            /\ pc' = "step3"
      [] r = "parse_err" ->
            /\ disk' = disk \cup {IndexFile}
            /\ pc' = "abort_index"
            /\ UNCHANGED max_pages
      [] OTHER -> pc' = "abort_index" /\ UNCHANGED <<disk, max_pages>>

\* Step 2, &clients[0]: indexing an empty Vec panics. Otherwise save_file
\* returns Err and nothing is written, or the index is written and the page
\* count cannot be scraped from it, or it is written and scraped.
Step2Result(r) ==
    IF clients = 0
    THEN pc' = "panic_clients0" /\ UNCHANGED <<disk, max_pages>>
    ELSE CASE r = "ok" ->
                 /\ disk' = disk \cup {IndexFile}
                 /\ max_pages' = remoteN
                 /\ pc' = "step3"
           [] r = "parse_err" ->
                 /\ disk' = disk \cup {IndexFile}
                 /\ pc' = "abort_index"
                 /\ UNCHANGED max_pages
           [] OTHER -> pc' = "abort_index" /\ UNCHANGED <<disk, max_pages>>

\* Step 2: save_file of the index through clients[0], then the page count
\* is scraped from it; an Err of save_file, or an Err or a panic of the
\* scraping, ends main.
Step2 ==
    /\ pc = "step2"
    /\ \E r \in {"ok", "fetch_err", "parse_err"} : Step2Result(r)
    /\ UNCHANGED <<ckpt, remoteN, remoteChanged, persistedHigh, config, clients, stage,
                   dlVars, histVars, pxVars, gtVars>>

\* Mutant: >= in place of >.
Step3RunsAlsoWhenEqual == max_pages >= config.max_pages

\* The condition of Step 3.
Step3Runs == max_pages > config.max_pages

\* Mutant: only the pages past the loaded max_pages are fetched.
PageJobsOnlyNew(n) == {PageFile(p) : p \in (config.max_pages + 1)..n}

PageJobs(n) == {PageFile(p) : p \in 1..n}

\* Step 3: one job per page 1..=max_pages goes to save_files, or the step
\* and Step 4 are skipped.
Step3 ==
    /\ pc = "step3"
    /\ IF Step3Runs
       THEN /\ StartSaveFiles(PageJobs(max_pages), "pages")
            /\ submitted' = [submitted EXCEPT !.pages = PageJobs(max_pages)]
       ELSE /\ pc' = "step5"
            /\ UNCHANGED <<stage, queue, cap, wpc, msg, files, requeued, submitted>>
    /\ UNCHANGED <<storeVars, config, clients, max_pages, deadClients, deadJobs,
                   ckptAtStart, diskAtStart, saves, prevDone, pxVars, gtVars>>

\* Config::save up to File::options()...truncate(true).open(path): the file
\* is empty until write_all.
OpenTruncate(next) ==
    /\ ckpt' = Unreadable
    /\ pc' = next

\* config.max_pages = max_pages; config.save(base_path) up to the open.
Step3Persist ==
    /\ pc = "after_pages"
    /\ config' = [config EXCEPT !.max_pages = max_pages]
    /\ OpenTruncate("write93")
    /\ UNCHANGED <<disk, remoteN, remoteChanged, persistedHigh, clients, max_pages, stage,
                   dlVars, histVars, pxVars, gtVars>>

\* After write_all of Config::save, main continues after the call.
AfterWrite(at) ==
    CASE at = "write93" -> "step4"
      [] at = "write110" -> "step5"
      [] OTHER -> "step7"

Writing == {"write93", "write110", "write151"}

\* file.write_all(content.as_bytes()) of Config::save.
ConfigWrite ==
    /\ pc \in Writing
    /\ ckpt' = Written(config)
    /\ persistedHigh' = Max(persistedHigh, config.max_pages)
    /\ saves' = saves + 1
    /\ pc' = AfterWrite(pc)
    /\ UNCHANGED <<disk, remoteN, remoteChanged, config, clients, max_pages, stage, dlVars,
                   ckptAtStart, diskAtStart, submitted, prevDone, pxVars, gtVars>>

\* write_all fails: save returns Err and `?` ends main.
ConfigWriteErr ==
    /\ pc \in Writing
    /\ pc' = "abort_save"
    /\ UNCHANGED <<storeVars, config, clients, max_pages, stage, dlVars, histVars, pxVars, gtVars>>

\* The entries Step 4 derives from the page files on disk.
Step4Entries(d, n) == Dedup(Sort(ScrapeAll(d, ScrapedPages(n), "html")))

\* Step 4 up to the open of config.save.
Step4 ==
    /\ pc = "step4"
    /\ config' = [config EXCEPT !.entries = Step4Entries(disk, max_pages)]
    /\ OpenTruncate("write110")
    /\ UNCHANGED <<disk, remoteN, remoteChanged, persistedHigh, clients, max_pages, stage,
                   dlVars, histVars, pxVars, gtVars>>

\* Mutant: the filter on fs::metadata is left out.
EntryJobsUnfiltered(entries, d) == {EntryFile(e) : e \in Range(entries)}

\* Step 5's filter: the entries whose file fs::metadata does not find.
EntryJobs(entries, d) == {EntryFile(e) : e \in {x \in Range(entries) : EntryFile(x) \notin d}}

\* Step 5: the absent entries go to save_files, or Steps 5 and 6 are skipped.
Step5 ==
    /\ pc = "step5"
    /\ LET jobs == EntryJobs(config.entries, disk)
       IN  IF Cardinality(jobs) > 0
           THEN /\ StartSaveFiles(jobs, "entries")
                /\ submitted' = [submitted EXCEPT !.entries = jobs]
           ELSE /\ pc' = "step7"
                /\ UNCHANGED <<stage, queue, cap, wpc, msg, files, requeued, submitted>>
    /\ UNCHANGED <<storeVars, config, clients, max_pages, deadClients, deadJobs,
                   ckptAtStart, diskAtStart, saves, prevDone, pxVars, gtVars>>

\* The torrents Step 6 derives from the entry files on disk.
Step6Torrents(d, entries) == Dedup(Sort(ScrapeAll(d, EntryFiles(entries), "torrent")))

\* Step 6 up to the open of config.save.
Step6 ==
    /\ pc = "after_entries"
    /\ config' = [config EXCEPT !.torrents = Step6Torrents(disk, config.entries)]
    /\ OpenTruncate("write151")
    /\ UNCHANGED <<disk, remoteN, remoteChanged, persistedHigh, clients, max_pages, stage,
                   dlVars, histVars, pxVars, gtVars>>

\* Mutant: a locator the regex does not match is not dropped.
TorrentJobsAnyHost(torrents, d) ==
    {TorrentFile(t) : t \in {x \in Range(torrents) : TorrentFile(x) \notin d}}

\* Step 7's filter_map and filter: the locators the regex matches whose
\* destination fs::metadata does not find.
TorrentJobs(torrents, d) ==
    {TorrentFile(t) : t \in {x \in Range(torrents) :
                                /\ regex_captures(x).some
                                /\ TorrentFile(x) \notin d}}

\* Step 7: the absent torrent files go to save_files, or main returns Ok(()).
Step7 ==
    /\ pc = "step7"
    /\ LET jobs == TorrentJobs(config.torrents, disk)
       IN  IF Cardinality(jobs) > 0
           THEN /\ StartSaveFiles(jobs, "torrents")
                /\ submitted' = [submitted EXCEPT !.torrents = jobs]
           ELSE /\ pc' = "done"
                /\ UNCHANGED <<stage, queue, cap, wpc, msg, files, requeued, submitted>>
    /\ UNCHANGED <<storeVars, config, clients, max_pages, deadClients, deadJobs,
                   ckptAtStart, diskAtStart, saves, prevDone, pxVars, gtVars>>

\* The process is killed: what is in memory is gone, the files stay.
Kill ==
    /\ pc \notin Ended
    /\ pc' = "idle"
    /\ ResetMain
    /\ ResetDL
    /\ ResetHist
    /\ UNCHANGED <<storeVars, pxVars, gtVars>>

\* Between two runs the site shows another page count.
RemoteChange ==
    /\ pc \in Ended
    /\ \E n \in 1..MaxN : n # remoteN /\ remoteN' = n
    /\ remoteChanged' = TRUE
    /\ pc' = "idle"
    /\ ResetMain
    /\ ResetDL
    /\ ResetHist
    /\ UNCHANGED <<ckpt, disk, persistedHigh, pxVars, gtVars>>

Next ==
    \/ Start
    \/ Step1
    \/ Step1Fatal
    \/ Step2
    \/ Step3
    \/ Step3Persist
    \/ ConfigWrite
    \/ ConfigWriteErr
    \/ Step4
    \/ Step5
    \/ Step6
    \/ Step7
    \/ \E w \in Workers : Worker(w)
    \/ SaveFilesReturn
    \/ Kill
    \/ RemoteChange

Spec == Init /\ [][Next]_vars

\* ------------------------------------------- one call of save_files alone
JobSet(n) == {File("JOB", i) : i \in 1..n}

InitDL ==
    /\ ckpt = Unreadable
    /\ disk = {}
    /\ remoteN = 1
    /\ remoteChanged = FALSE
    /\ persistedHigh = 0
    /\ pc = "dl"
    /\ config = DefaultConfig
    /\ max_pages = 0
    /\ stage = "alone"
    /\ clients \in 1..MaxClients
    /\ \E n \in 1..MaxJobs :
          /\ files = JobSet(n)
          /\ queue \in Orders(JobSet(n))
          /\ cap = n
          /\ deadJobs \in SUBSET JobSet(n)
    /\ requeued = FALSE
    /\ wpc = [w \in Workers |-> IF w <= clients THEN "pop" ELSE "off"]
    /\ msg = [w \in Workers |-> NoJob]
    /\ deadClients \in SUBSET (1..clients)
    /\ IdleHist
    /\ IdlePX
    /\ IdleGT

NextDL ==
    \/ \E w \in Workers : Worker(w)
    \/ SaveFilesReturn

SpecDL == InitDL /\ [][NextDL]_vars

\* The threads of the pool run, a request ends, and a fetch that can
\* succeed does not fail forever.
FairDL ==
    /\ SpecDL
    /\ \A w \in Workers : WF_vars(Worker(w)) /\ SF_vars(SaveOk(w))
    /\ WF_vars(SaveFilesReturn)


\* ------------------------------------------------------ Step 1 in detail
Candidates == 1..NumCandidates

\* What the echo service may answer through a proxy: the address of this
\* host, the address of the proxy, or some other body.
Texts == {"ip_local", "ip_proxy", "other_body"}

\* What happens to a candidate: Proxy::all or the builder rejects it, send
\* fails, the body cannot be read, or the body is one of Texts.
Outcomes == {"bad_scheme", "send_err", "text_err"} \cup Texts

InitPX ==
    /\ ckpt = Unreadable
    /\ disk = {}
    /\ remoteN = 1
    /\ remoteChanged = FALSE
    /\ persistedHigh = 0
    /\ pc = "step1"
    /\ IdleMain
    /\ IdleDL
    /\ IdleHist
    /\ localText = "unset"
    /\ cand = [i \in Candidates |-> "line"]
    /\ net \in [base : {"err", "ip_local"}, px : [Candidates -> Outcomes]]
    /\ kept = {}
    /\ IdleGT

\* Proxy::all(&proxy_scheme) and Client::builder()...build(), each followed
\* by filter_map(Result::ok).
BuildClient(i) ==
    /\ pc = "step1"
    /\ cand[i] = "line"
    /\ cand' = [cand EXCEPT ![i] = IF net.px[i] = "bad_scheme" THEN "dropped" ELSE "client"]
    /\ UNCHANGED <<storeVars, mainVars, dlVars, histVars, gtVars, localText, net, kept>>

\* check_proxy: client.get(ADDR_URL).send()
Send(i) ==
    /\ pc = "step1"
    /\ cand[i] = "client"
    /\ cand' = [cand EXCEPT ![i] = IF net.px[i] = "send_err" THEN "dropped" ELSE "response"]
    /\ UNCHANGED <<storeVars, mainVars, dlVars, histVars, gtVars, localText, net, kept>>

\* check_proxy: remote_response.text()
Text(i) ==
    /\ pc = "step1"
    /\ cand[i] = "response"
    /\ cand' = [cand EXCEPT ![i] = IF net.px[i] = "text_err" THEN "dropped" ELSE "text"]
    /\ UNCHANGED <<storeVars, mainVars, dlVars, histVars, gtVars, localText, net, kept>>

\* Mutant: the comparison is inverted.
SameAddressInverted(remote_text, local_text) == remote_text # local_text

\* check_proxy: remote_text == LOCAL_TEXT.as_str()
SameAddress(remote_text, local_text) == remote_text = local_text

\* The first use of LOCAL_TEXT makes the direct request; its unwrap panics
\* when the request fails. Then the two texts are compared.
Compare(i) ==
    /\ pc = "step1"
    /\ cand[i] = "text"
    /\ IF localText = "unset" /\ net.base = "err"
       THEN /\ pc' = "panic_local_text"
            /\ UNCHANGED <<cand, localText, kept>>
       ELSE /\ localText' = net.base
            /\ IF SameAddress(net.px[i], net.base)
               THEN cand' = [cand EXCEPT ![i] = "dropped"] /\ kept' = kept
               ELSE cand' = [cand EXCEPT ![i] = "kept"] /\ kept' = kept \cup {i}
            /\ pc' = pc
    /\ UNCHANGED <<storeVars, config, clients, max_pages, stage, dlVars, histVars, gtVars, net>>

\* .collect::<Vec<_>>() once every candidate went through the chain.
Collect ==
    /\ pc = "step1"
    /\ cand # <<>>
    /\ \A i \in Candidates : cand[i] \in {"dropped", "kept"}
    /\ clients' = Cardinality(kept)
    /\ pc' = "step2"
    /\ UNCHANGED <<storeVars, config, max_pages, stage, dlVars, histVars, pxVars, gtVars>>

NextPX ==
    \/ \E i \in Candidates : BuildClient(i) \/ Send(i) \/ Text(i) \/ Compare(i)
    \/ Collect

SpecPX == InitPX /\ [][NextPX]_vars

\* -------------------------------------------------- save_file in detail
\* .take(10) on the iterator of delays handed to retry_with_index.
Take == 10

\* What one request can come to: send() returns Err, or it returns
\* Ok(response) whatever the status of the response is.
Statuses == {"success", "error_status"}

\* One client, so that the requests of one call of get_text are counted;
\* the network decides request by request.
InitGT ==
    /\ ckpt = Unreadable
    /\ disk = {}
    /\ remoteN = 1
    /\ remoteChanged = FALSE
    /\ persistedHigh = 0
    /\ pc = "dl"
    /\ config = DefaultConfig
    /\ max_pages = 0
    /\ stage = "alone"
    /\ clients = 1
    /\ \E n \in 1..MaxJobs :
          /\ files = JobSet(n)
          /\ queue \in Orders(JobSet(n))
          /\ cap = n
    /\ deadJobs = {}
    /\ deadClients = {}
    /\ requeued = FALSE
    /\ wpc = [w \in Workers |-> IF w <= clients THEN "pop" ELSE "off"]
    /\ msg = [w \in Workers |-> NoJob]
    /\ IdleHist
    /\ IdlePX
    /\ IdleGT

\* save_file returned Err to the closure: what get_text and the response
\* held is dropped, the error is printed and the job is pushed back.
ErrToWorker(w) ==
    /\ Requeue(w)
    /\ sent' = [sent EXCEPT ![w] = 0]
    /\ delays' = [delays EXCEPT ![w] = 0]
    /\ resp' = [resp EXCEPT ![w] = "none"]

\* get_text: operation(current_try), that is client.get(url).send(). An Err
\* is what the retry loop sees as a failure; a response is Ok whatever its
\* status, since nothing looks at the status.
Request(w) ==
    /\ pc = "dl"
    /\ wpc[w] = "save"
    /\ sent' = [sent EXCEPT ![w] = @ + 1]
    /\ \E r \in {"err"} \cup Statuses :
          IF r = "err"
          THEN wpc' = [wpc EXCEPT ![w] = "failed"] /\ resp' = resp
          ELSE wpc' = [wpc EXCEPT ![w] = "response"] /\ resp' = [resp EXCEPT ![w] = r]
    /\ UNCHANGED <<storeVars, mainVars, queue, cap, msg, files, deadClients, deadJobs,
                   requeued, histVars, pxVars, delays, errBodies, fsErr>>

\* retry_with_index after a failed operation: the next delay is taken from
\* the iterator and slept and the operation is tried again; when no delay
\* is left the error is returned, and save_file passes it on.
Retry(w) ==
    /\ pc = "dl"
    /\ wpc[w] = "failed"
    /\ IF delays[w] < Take
       THEN /\ delays' = [delays EXCEPT ![w] = @ + 1]
            /\ wpc' = [wpc EXCEPT ![w] = "save"]
            /\ UNCHANGED <<pc, queue, msg, requeued, sent, resp>>
       ELSE ErrToWorker(w)
    /\ UNCHANGED <<storeVars, config, clients, max_pages, stage, cap, files,
                   deadClients, deadJobs, histVars, pxVars, errBodies, fsErr>>

\* get_text: response.text()?; the body is read, or the read fails and
\* the error is returned at once.
ReadBody(w) ==
    /\ pc = "dl"
    /\ wpc[w] = "response"
    /\ \E ok \in BOOLEAN :
          IF ok
          THEN /\ wpc' = [wpc EXCEPT ![w] = "contents"]
               /\ sent' = [sent EXCEPT ![w] = 0]
               /\ delays' = [delays EXCEPT ![w] = 0]
               /\ UNCHANGED <<pc, queue, msg, requeued, resp>>
          ELSE ErrToWorker(w)
    /\ UNCHANGED <<storeVars, config, clients, max_pages, stage, cap, files,
                   deadClients, deadJobs, histVars, pxVars, errBodies, fsErr>>

\* save_file after get_text returned the contents: create_dir_all(..)? and
\* fs::write(path, &contents)?. Either the body that was read is now the
\* file, or one of the two calls failed before anything was written and its
\* error goes to the closure like any other.
WriteFile(w) ==
    /\ pc = "dl"
    /\ wpc[w] = "contents"
    /\ \E r \in {"ok", "create_dir_err", "write_err"} :
          IF r = "ok"
          THEN /\ disk' = disk \cup {msg[w]}
               /\ errBodies' = IF resp[w] = "error_status"
                               THEN errBodies \cup {msg[w]}
                               ELSE errBodies \ {msg[w]}
               /\ msg' = [msg EXCEPT ![w] = NoJob]
               /\ wpc' = [wpc EXCEPT ![w] = "pop"]
               /\ resp' = [resp EXCEPT ![w] = "none"]
               /\ UNCHANGED <<pc, queue, requeued, sent, delays, fsErr>>
          ELSE /\ fsErr' = TRUE
               /\ ErrToWorker(w)
               /\ UNCHANGED <<disk, errBodies>>
    /\ UNCHANGED <<ckpt, remoteN, remoteChanged, persistedHigh, config, clients,
                   max_pages, stage, cap, files, deadClients, deadJobs, histVars, pxVars>>

WorkerGT(w) ==
    Pop(w) \/ Exit(w) \/ Request(w) \/ Retry(w) \/ ReadBody(w) \/ WriteFile(w)

NextGT ==
    \/ \E w \in Workers : WorkerGT(w)
    \/ SaveFilesReturn

SpecGT == InitGT /\ [][NextGT]_vars


\* ================================================================ claims

\* ---- C1: when save_files returns, the queue is empty, no client holds a
\* job, and the destination of every submitted job has been written.
C1_ReturnsWhenAllWritten ==
    pc = "returned" =>
        /\ queue = <<>>
        /\ \A w \in Workers : msg[w] = NoJob
        /\ \A f \in files : f \in disk

\* save_files returned after two clients shared three jobs and at least one
\* job went back to the queue.
C1_Witness ==
    /\ pc = "returned"
    /\ clients = 2
    /\ Cardinality(files) = 3
    /\ requeued
    /\ \A w \in 1..2 : wpc[w] = "exit"

\* ---- C2: a run that follows a killed or aborted run, against an unchanged
\* site, ends with the checkpoint and the files an uninterrupted run from
\* nothing produces.
UninterruptedEntries(n) ==
    Dedup(Sort(ScrapeAll({File("PAGES", p) : p \in 1..n}, ScrapedPages(n), "html")))

UninterruptedTorrents(n) ==
    LET es == UninterruptedEntries(n)
    IN  Dedup(Sort(ScrapeAll({File("ENTRIES", e) : e \in Range(es)}, EntryFiles(es), "torrent")))

UninterruptedCheckpoint(n) ==
    [ok |-> TRUE, max_pages |-> n, entries |-> UninterruptedEntries(n),
     torrents |-> UninterruptedTorrents(n)]

UninterruptedDisk(n) ==
    {File("INDEX", 0)}
        \cup {File("PAGES", p) : p \in 1..n}
        \cup {File("ENTRIES", e) : e \in Range(UninterruptedEntries(n))}
        \cup {File("TORRENT", Locator(t).name) :
                t \in {x \in Range(UninterruptedTorrents(n)) : Locator(x).host = "d.ptorrents.com"}}

C2_ResumesCorrectly ==
    (pc = "done" /\ ~remoteChanged) =>
        /\ ckpt = UninterruptedCheckpoint(remoteN)
        /\ disk = UninterruptedDisk(remoteN)

\* ---- C3: a full run that follows a full run, the site unchanged, hands no
\* job to save_files and leaves the checkpoint file as it found it.
C3_SecondRunIdle ==
    (pc = "done" /\ prevDone) =>
        /\ submitted = NoSubmits
        /\ saves = 0
        /\ ckpt = ckptAtStart
        /\ disk = diskAtStart

\* The second of two full runs ended, the first having left entries,
\* torrents and a torrent file.
C3_Witness ==
    /\ pc = "done"
    /\ prevDone
    /\ ckpt.ok
    /\ Len(ckpt.entries) >= 2
    /\ Len(ckpt.torrents) >= 2
    /\ \E f \in disk : f.dir = "TORRENT"

\* ---- C4: Step 3 runs iff the scraped page count exceeds the loaded
\* max_pages; it then submits every page 1..N and persists max_pages = N;
\* otherwise no page is fetched and Steps 3 and 4 leave the checkpoint alone.
LoadedMaxPages == IF ckptAtStart.ok THEN ckptAtStart.max_pages ELSE 0

InStage2or3 ==
    /\ stage = "pages"
    /\ pc \in {"dl", "after_pages", "write93", "step4", "write110"}

C4_Stage2 ==
    /\ InStage2or3 =>
          /\ max_pages > LoadedMaxPages
          /\ submitted.pages = {File("PAGES", p) : p \in 1..max_pages}
    /\ (pc = "step4" \/ (pc = "step5" /\ max_pages > LoadedMaxPages)) =>
          /\ submitted.pages = {File("PAGES", p) : p \in 1..max_pages}
          /\ \A p \in 1..max_pages : File("PAGES", p) \in disk
          /\ config.max_pages = max_pages
          /\ ckpt.ok
          /\ ckpt.max_pages = max_pages
    /\ (pc = "step5" /\ max_pages <= LoadedMaxPages) =>
          /\ submitted.pages = {}
          /\ \A f \in disk \ diskAtStart : f.dir = "INDEX"
          /\ ckpt = ckptAtStart
          /\ saves = 0
          /\ config.max_pages = LoadedMaxPages

\* Step 3 submitted all three pages although pages 1 and 2 were on disk
\* when the run started, and max_pages is persisted.
C4_Witness ==
    /\ pc = "step4"
    /\ max_pages = 3
    /\ {File("PAGES", 1), File("PAGES", 2)} \subseteq diskAtStart
    /\ Cardinality(submitted.pages) = 3
    /\ ckpt.max_pages = 3

\* ---- C5: Steps 5 and 6 run iff some entry of config.entries has no file;
\* the jobs are exactly the absent entries; otherwise nothing is fetched and
\* torrents is neither rewritten nor persisted again.
AbsentAtStart == {e \in Range(config.entries) : File("ENTRIES", e) \notin diskAtStart}

SavesOfStage3 == IF submitted.pages = {} THEN 0 ELSE 2

InStage4 ==
    /\ stage = "entries"
    /\ pc \in {"dl", "after_entries", "write151"}

PastStage4 == pc \in {"step7", "done"} \/ (pc = "dl" /\ stage = "torrents")

C5_Stage4 ==
    /\ InStage4 =>
          /\ AbsentAtStart # {}
          /\ submitted.entries = {File("ENTRIES", e) : e \in AbsentAtStart}
    /\ (PastStage4 /\ AbsentAtStart # {}) =>
          /\ submitted.entries = {File("ENTRIES", e) : e \in AbsentAtStart}
          /\ saves = SavesOfStage3 + 1
          /\ ckpt = Written(config)
    /\ (PastStage4 /\ AbsentAtStart = {}) =>
          /\ submitted.entries = {}
          /\ \A f \in disk \ diskAtStart : f.dir # "ENTRIES"
          /\ config.torrents = Load(ckptAtStart).torrents
          /\ saves = SavesOfStage3

\* Step 5 submitted the one entry that was absent, of three known entries.
C5_Witness ==
    /\ pc = "step7"
    /\ Len(config.entries) = 3
    /\ Cardinality(submitted.entries) = 1
    /\ Len(config.torrents) > 0

\* ---- C6: entries and torrents, in memory and in the checkpoint file, are
\* sorted ascending without duplicates after Step 4 and after Step 6.
IsSortedNoDup(s) == \A i \in 1..Len(s) - 1 : s[i] < s[i + 1]

C6_SortedNoDup ==
    /\ IsSortedNoDup(config.entries)
    /\ IsSortedNoDup(config.torrents)
    /\ IsSortedNoDup(ckpt.entries)
    /\ IsSortedNoDup(ckpt.torrents)

\* Step 6 rewrote torrents and the checkpoint holds three entries and
\* several torrents.
C6_Witness ==
    /\ pc = "step7"
    /\ saves = 3
    /\ ckpt.ok
    /\ Len(ckpt.entries) = 3
    /\ Len(ckpt.torrents) >= 2
    /\ config.entries = ckpt.entries

\* ---- C7: the max_pages a save writes to the checkpoint file is never
\* below one that an earlier save wrote.
C7_MaxPagesNeverDecreases == ckpt.ok => ckpt.max_pages >= persistedHigh

\* ---- C8: with an empty client set nothing after Step 1 acts: the index is
\* not fetched, no job is submitted, config and the checkpoint file are as
\* loaded.
C8_NoClientsNoEffect ==
    (clients = 0 /\ pc \notin {"idle", "step1", "abort_proxies", "panic_local_text"}) =>
        /\ pc \in {"step2", "panic_clients0"}
        /\ disk = diskAtStart
        /\ submitted = NoSubmits
        /\ saves = 0
        /\ ckpt = ckptAtStart
        /\ config = Load(ckptAtStart)

\* A run that found a checkpoint and files of an earlier run stopped at
\* clients[0] with no client.
C8_Witness ==
    /\ pc = "panic_clients0"
    /\ clients = 0
    /\ ckptAtStart.ok
    /\ ckptAtStart.max_pages > 0

\* ---- C9: a candidate's client is kept iff the request through it yields a
\* response and a body and the body differs from the direct text; a
\* candidate that fails or shows the same text is dropped and the others
\* are still validated.
RequestSucceeds(i) == net.px[i] \in {"ip_local", "ip_proxy", "other_body"}

C9_KeptIff ==
    /\ \A i \in Candidates :
          /\ cand # <<>> /\ cand[i] = "kept" => RequestSucceeds(i) /\ net.px[i] # net.base
          /\ cand # <<>> /\ cand[i] = "dropped" => ~(RequestSucceeds(i) /\ net.px[i] # net.base)
    /\ (cand # <<>> /\ pc = "step2") =>
          /\ kept = {i \in Candidates : RequestSucceeds(i) /\ net.px[i] # "ip_local"}
          /\ clients = Cardinality(kept)
    /\ (cand # <<>> /\ pc = "panic_local_text") =>
          /\ net.base = "err"
          /\ \E i \in Candidates : RequestSucceeds(i)

\* Validation ended with candidate 1 dropped for showing the direct address
\* and candidate 2 kept.
C9_Witness ==
    /\ cand # <<>>
    /\ pc = "step2"
    /\ net.px[1] = "ip_local"
    /\ cand[1] = "dropped"
    /\ net.px[2] = "ip_proxy"
    /\ kept = {2}

\* ---- C10: under fair workers, when no client and no job fails
\* permanently, save_files eventually returns.
C10_Returns == (deadClients = {} /\ deadJobs = {}) => <>(pc = "returned")

\* save_files returned, no endpoint being dead, after a requeue.
C10_Witness ==
    /\ pc = "returned"
    /\ deadClients = {}
    /\ deadJobs = {}
    /\ requeued
    /\ Cardinality(files) >= 2

\* ---- C11: a failure of create_dir_all or of the write of the artifact
\* while a worker saves a job ends the run: once one happened, save_files
\* is neither still working its queue nor returned to main.
C11_WriteFailureIsFatal == fsErr => pc \notin {"dl", "returned"}

\* ---- C12: Step 4 runs iff Step 3 ran in the same run; it then replaces
\* config.entries by the sorted, duplicate-free union of the entry links of
\* the page files 1..N-1 (page N is not read) and persists it; otherwise
\* entries stays as loaded and nothing is persisted.
LinkedEntries(n) ==
    UNION {{h.id : h \in {x \in Range(PageHtml(p)) : x.ext = "html"}} : p \in 1..(n - 1)}

C12_Stage3 ==
    /\ pc \in {"step4", "write110"} => submitted.pages # {}
    /\ (pc = "step5" /\ submitted.pages # {}) =>
          /\ Range(config.entries) = LinkedEntries(max_pages)
          /\ IsSortedNoDup(config.entries)
          /\ ckpt.ok
          /\ ckpt.entries = config.entries
          /\ saves = 2
    /\ (pc = "step5" /\ submitted.pages = {}) =>
          /\ config.entries = Load(ckptAtStart).entries
          /\ ckpt = ckptAtStart
          /\ saves = 0

\* Three pages were fetched, page 3 is on disk, and the persisted entries
\* are the ones pages 1 and 2 link: entry 4, linked by page 3 only, is not
\* among them.
C12_Witness ==
    /\ pc = "step5"
    /\ max_pages = 3
    /\ submitted.pages # {}
    /\ File("PAGES", 3) \in disk
    /\ 4 \in {h.id : h \in Range(PageHtml(3))}
    /\ ckpt.entries = <<1, 2, 3>>

\* ---- C13: Step 7 does not write the checkpoint; its jobs are exactly the
\* locators the regex matches whose destination was absent; a locator the
\* regex does not match stays in the persisted torrents and has no job.
Matching(torrents) == {t \in Range(torrents) : Locator(t).host = "d.ptorrents.com"}

SavesBeforeStage5 == SavesOfStage3 + (IF submitted.entries = {} THEN 0 ELSE 1)

InStage5 == pc = "done" \/ (pc = "dl" /\ stage = "torrents")

C13_Stage5 ==
    InStage5 =>
       /\ saves = SavesBeforeStage5
       /\ ckpt = (IF saves = 0 THEN ckptAtStart ELSE Written(config))
       /\ submitted.torrents =
             {File("TORRENT", Locator(t).name) :
                t \in {x \in Matching(config.torrents) :
                          File("TORRENT", Locator(x).name) \notin diskAtStart}}
       /\ \A t \in Range(config.torrents) \ Matching(config.torrents) :
             /\ ckpt.ok => t \in Range(ckpt.torrents)
             /\ \A f \in submitted.torrents : f.id # Locator(t).name

\* The run ended with locator 2, which the regex does not match, in the
\* persisted torrents, the file of locator 1 on disk since before the run
\* and one job submitted, for locator 3.
C13_Witness ==
    /\ pc = "done"
    /\ 2 \in Range(ckpt.torrents)
    /\ File("TORRENT", 1) \in diskAtStart
    /\ submitted.torrents = {File("TORRENT", 3)}

\* ---- C14 (as stated): while the site is unchanged, a run submits no job
\* for a destination that an earlier, killed or aborted, run had written:
\* no page, no entry, no torrent file.
AllSubmitted == submitted.pages \cup submitted.entries \cup submitted.torrents

C14_NoJobForWrittenFile ==
    ~remoteChanged => \A f \in AllSubmitted : f \notin diskAtStart

\* ---- C14 (amended): a run submits no job for an entry file or a torrent
\* file that was on disk when it started; the page files are all fetched
\* again whenever Step 3 runs.
C14_NoJobForWrittenEntryOrTorrent ==
    /\ \A f \in submitted.entries \cup submitted.torrents : f \notin diskAtStart
    /\ submitted.pages # {} => submitted.pages = {File("PAGES", p) : p \in 1..max_pages}

\* A run after a killed one on the unchanged site: the file of entry 1 was
\* on disk, Step 3 was skipped, and the run fetched the other entries only.
C14_Witness ==
    /\ pc = "done"
    /\ ~remoteChanged
    /\ ~prevDone
    /\ File("ENTRIES", 1) \in diskAtStart
    /\ submitted.pages = {}
    /\ submitted.entries # {}

\* ---- C15: when the source of a submitted job is permanently unreachable,
\* save_files never returns, and under fair workers that job is popped
\* again and again and pushed back again and again.
Held(j) == \E w \in Workers : msg[w] = j

Queued(j) == \E i \in 1..Len(queue) : queue[i] = j

C15_NeverReturns ==
    \A j \in JobSet(MaxJobs) :
        j \in deadJobs =>
            /\ [](pc # "returned")
            /\ []<>Held(j)
            /\ []<>Queued(j)

\* The only unreachable job is held by a worker after it went back to the
\* queue, and every other job is written.
C15_Witness ==
    /\ Cardinality(deadJobs) = 1
    /\ Cardinality(files) >= 2
    /\ files \ deadJobs \subseteq disk
    /\ requeued
    /\ \E w \in Workers : msg[w] \in deadJobs

\* ---- C16: one call of get_text sends at most 10 requests, and when it
\* gives up because every request failed it has sent exactly 10.
C16_AtMostTenRequests ==
    \A w \in Workers :
        /\ sent[w] <= 10
        /\ (wpc[w] = "failed" /\ delays[w] = Take) => sent[w] = 10

\* ---- C17: a response with an error status is a failed attempt: no worker
\* goes on to read the body of one, and no destination holds such a body.
C17_ErrorStatusIsFailure ==
    /\ \A w \in Workers : wpc[w] \in {"response", "contents"} => resp[w] = "success"
    /\ errBodies = {}

\* ---- C18: a job that a failing client pushes back can still reach a
\* client that works: when every job can be fetched and some client's
\* fetches succeed, then as long as a file is unwritten some such client
\* is still in its loop.
LiveClients == {w \in 1..clients : w \notin deadClients}

C18_JobReachesLiveClient ==
    (deadJobs = {} /\ LiveClients # {} /\ pc = "dl" /\ files \ disk # {}) =>
        \E w \in LiveClients : wpc[w] # "exit"

\* ---- C19: in one call of save_files every submitted job is in exactly
\* one place: once in the queue, or held by exactly one worker, or written;
\* the queued and held jobs never outnumber the capacity, and the push
\* after a failure never finds the queue full.
TimesQueued(j) == Cardinality({i \in 1..Len(queue) : queue[i] = j})

Holders(j) == {w \in Workers : msg[w] = j}

HeldJobs == {w \in Workers : msg[w] # NoJob}

C19_JobConservation ==
    /\ \A j \in files :
          TimesQueued(j) + Cardinality(Holders(j)) + (IF j \in disk THEN 1 ELSE 0) = 1
    /\ \A w \in HeldJobs : msg[w] \in files
    /\ \A i \in 1..Len(queue) : queue[i] \in files
    /\ Len(queue) + Cardinality(HeldJobs) <= cap
    /\ pc # "panic_push"

\* Of three jobs one is written, one is held, and one is in the queue
\* after a push that followed a failure.
C19_Witness ==
    /\ Cardinality(files) = 3
    /\ requeued
    /\ Len(queue) = 1
    /\ Cardinality(HeldJobs) = 1
    /\ Cardinality(files \cap disk) = 1

\* ---- C20: across runs and kills, whenever the checkpoint file holds
\* max_pages = N > 0, the page files 1..N are on disk: max_pages is
\* persisted only after save_files returned from the page download.
C20_PagesBeforeMaxPages ==
    (ckpt.ok /\ ckpt.max_pages > 0) =>
        \A p \in 1..ckpt.max_pages : File("PAGES", p) \in disk

\* max_pages = 3 was just persisted by a run that started after a killed
\* one had left page files behind, and whose page download saw a failure.
C20_Witness ==
    /\ pc = "step4"
    /\ ckpt.ok
    /\ ckpt.max_pages = 3
    /\ requeued
    /\ ~ckptAtStart.ok
    /\ File("PAGES", 1) \in diskAtStart


====
